---------------------------- MODULE Spec2Model ----------------------------
(***************************************************************************)
(* Arc geometry engine of tremor-gauge (src/src/utils/arc.ts).             *)
(*                                                                         *)
(* Numbers.  A JavaScript number is modelled as an exact fraction <<n, d>> *)
(* in lowest terms with d > 0; <<0, 0>> is NaN and <<1, 0>>, <<-1, 0>> are *)
(* +Infinity and -Infinity.  The rounding of IEEE-754 doubles is not       *)
(* modelled, and -0 is not told apart from 0.                              *)
(*                                                                         *)
(* Lengths.  Every stroke length the engine computes (circumference, arc   *)
(* length, dash lengths, dash offsets) is a rational multiple of Math.PI,  *)
(* and no two lengths are ever multiplied together, so Math.PI is the unit *)
(* in which lengths are kept.  Angles in degrees are plain fractions.      *)
(***************************************************************************)
EXTENDS Integers, Sequences, FiniteSets, TLC

(***************************************************************************)
(* Bounds of the inputs the calls are made with.                           *)
(***************************************************************************)
MaxRadius == 2
FracDen == 4
SegDen == 2
MaxSegs == 3
MaxValueK == 5

(***************************************************************************)
(* Number arithmetic.                                                      *)
(***************************************************************************)
Abs(i) == IF i < 0 THEN -i ELSE i

Sign(i) == IF i < 0 THEN -1 ELSE IF i > 0 THEN 1 ELSE 0

RECURSIVE GCD(_, _)
GCD(a, b) == IF b = 0 THEN a ELSE GCD(b, a % b)

\* The number n/d (d # 0), in lowest terms with a positive denominator.
Rat(n, d) ==
  LET g == GCD(Abs(n), Abs(d))
  IN  IF d > 0 THEN <<n \div g, d \div g>> ELSE <<(-n) \div g, (-d) \div g>>

Num(i) == <<i, 1>>

NaN == <<0, 0>>

Infinity(s) == <<s, 0>>

IsNaN(x) == x = NaN

IsFinite(x) == x[2] # 0

Neg(x) == <<-x[1], x[2]>>

Add(x, y) ==
  IF IsNaN(x) \/ IsNaN(y) THEN NaN
  ELSE IF IsFinite(x) /\ IsFinite(y)
       THEN Rat(x[1] * y[2] + y[1] * x[2], x[2] * y[2])
  ELSE IF IsFinite(x) THEN y
  ELSE IF IsFinite(y) THEN x
  ELSE IF x = y THEN x ELSE NaN

Sub(x, y) == Add(x, Neg(y))

Mul(x, y) ==
  IF IsNaN(x) \/ IsNaN(y) THEN NaN
  ELSE IF IsFinite(x) /\ IsFinite(y) THEN Rat(x[1] * y[1], x[2] * y[2])
  ELSE IF x[1] = 0 \/ y[1] = 0 THEN NaN
  ELSE Infinity(Sign(x[1]) * Sign(y[1]))

Div(x, y) ==
  IF IsNaN(x) \/ IsNaN(y) THEN NaN
  ELSE IF IsFinite(x) /\ IsFinite(y)
       THEN IF y[1] # 0 THEN Rat(x[1] * y[2], x[2] * y[1])
            ELSE IF x[1] = 0 THEN NaN ELSE Infinity(Sign(x[1]))
  ELSE IF IsFinite(y) THEN Infinity(Sign(x[1]) * (IF y[1] < 0 THEN -1 ELSE 1))
  ELSE IF IsFinite(x) THEN Num(0)
  ELSE NaN

\* x < y; false as soon as one side is NaN.
Lt(x, y) ==
  /\ ~IsNaN(x)
  /\ ~IsNaN(y)
  /\ IF IsFinite(x) /\ IsFinite(y) THEN x[1] * y[2] < y[1] * x[2]
     ELSE IF IsFinite(x) THEN y[1] > 0
     ELSE IF IsFinite(y) THEN x[1] < 0
     ELSE x[1] < y[1]

Le(x, y) == ~IsNaN(x) /\ ~IsNaN(y) /\ ~Lt(y, x)

\* x === y on numbers: NaN equals nothing.
StrictEq(x, y) == ~IsNaN(x) /\ ~IsNaN(y) /\ x = y

MathMax(x, y) == IF IsNaN(x) \/ IsNaN(y) THEN NaN ELSE IF Lt(x, y) THEN y ELSE x

MathMin(x, y) == IF IsNaN(x) \/ IsNaN(y) THEN NaN ELSE IF Lt(y, x) THEN y ELSE x

\* Math.PI, the unit of stroke length.
PI == Num(1)

(***************************************************************************)
(* Number to string.  A number's text is its sign and its digits; the      *)
(* text of a template literal `${a} ${b}` is the sequence of the texts of  *)
(* its two numbers, split at the blank.                                    *)
(***************************************************************************)
NumberToString(x) ==
  IF IsNaN(x) THEN [sign |-> "", digits |-> "NaN"]
  ELSE IF ~IsFinite(x) THEN [sign |-> IF x[1] < 0 THEN "-" ELSE "", digits |-> "Infinity"]
  ELSE [sign |-> IF x[1] < 0 THEN "-" ELSE "", digits |-> <<Abs(x[1]), x[2]>>]

DashArrayString(visible, gap) == <<NumberToString(visible), NumberToString(gap)>>

(***************************************************************************)
(* getArcDash                                                              *)
(***************************************************************************)
\* Faulty variant: the offset is the filled length, not what is left of the arc.
getArcDash_OffsetIsFilled(radius, arcSpan, fraction) ==
  LET circumference == Mul(Mul(Num(2), PI), radius)
      arcLength     == Mul(Div(arcSpan, Num(360)), circumference)
      filledLength  == Mul(arcLength, MathMax(Num(0), MathMin(Num(1), fraction)))
  IN  [circumference |-> circumference,
       dashArray     |-> DashArrayString(arcLength, circumference),
       dashOffset    |-> filledLength,
       rotationDeg   |-> Add(Num(90), Div(Sub(Num(360), arcSpan), Num(2)))]

\* Faulty variant: the fraction is used as given, without Math.max/Math.min.
getArcDash_NoClamp(radius, arcSpan, fraction) ==
  LET circumference == Mul(Mul(Num(2), PI), radius)
      arcLength     == Mul(Div(arcSpan, Num(360)), circumference)
      filledLength  == Mul(arcLength, fraction)
  IN  [circumference |-> circumference,
       dashArray     |-> DashArrayString(arcLength, circumference),
       dashOffset    |-> Sub(arcLength, filledLength),
       rotationDeg   |-> Add(Num(90), Div(Sub(Num(360), arcSpan), Num(2)))]

\* Faulty variant: the missing span is not halved.
getArcDash_RotationNotHalved(radius, arcSpan, fraction) ==
  LET circumference == Mul(Mul(Num(2), PI), radius)
      arcLength     == Mul(Div(arcSpan, Num(360)), circumference)
      filledLength  == Mul(arcLength, MathMax(Num(0), MathMin(Num(1), fraction)))
  IN  [circumference |-> circumference,
       dashArray     |-> DashArrayString(arcLength, circumference),
       dashOffset    |-> Sub(arcLength, filledLength),
       rotationDeg   |-> Add(Num(90), Sub(Num(360), arcSpan))]

\* Faulty variant: the gap of the dash pattern is the arc, not the whole circle.
getArcDash_GapIsArcLength(radius, arcSpan, fraction) ==
  LET circumference == Mul(Mul(Num(2), PI), radius)
      arcLength     == Mul(Div(arcSpan, Num(360)), circumference)
      filledLength  == Mul(arcLength, MathMax(Num(0), MathMin(Num(1), fraction)))
  IN  [circumference |-> circumference,
       dashArray     |-> DashArrayString(arcLength, arcLength),
       dashOffset    |-> Sub(arcLength, filledLength),
       rotationDeg   |-> Add(Num(90), Div(Sub(Num(360), arcSpan), Num(2)))]

getArcDash(radius, arcSpan, fraction) ==
  LET circumference == Mul(Mul(Num(2), PI), radius)
      arcLength     == Mul(Div(arcSpan, Num(360)), circumference)
      filledLength  == Mul(arcLength, MathMax(Num(0), MathMin(Num(1), fraction)))
      dashArray     == DashArrayString(arcLength, circumference)
      dashOffset    == Sub(arcLength, filledLength)
      rotationDeg   == Add(Num(90), Div(Sub(Num(360), arcSpan), Num(2)))
  IN  [circumference |-> circumference,
       dashArray     |-> dashArray,
       dashOffset    |-> dashOffset,
       rotationDeg   |-> rotationDeg]

(***************************************************************************)
(* getNeedleAngle                                                          *)
(***************************************************************************)
\* Faulty variant: the angle is brought back below 360.
getNeedleAngle_Normalised(value, min, max, arcSpan) ==
  LET clamped      == MathMax(min, MathMin(max, value))
      fraction     == IF StrictEq(max, min) THEN Num(0)
                      ELSE Div(Sub(clamped, min), Sub(max, min))
      baseRotation == Add(Num(90), Div(Sub(Num(360), arcSpan), Num(2)))
      angle        == Add(Add(baseRotation, Mul(fraction, arcSpan)), Num(90))
  IN  IF Le(Num(360), angle) THEN Sub(angle, Num(360)) ELSE angle

\* Faulty variant: the value is not clamped to [min, max].
getNeedleAngle_NoClamp(value, min, max, arcSpan) ==
  LET fraction     == IF StrictEq(max, min) THEN Num(0)
                      ELSE Div(Sub(value, min), Sub(max, min))
      baseRotation == Add(Num(90), Div(Sub(Num(360), arcSpan), Num(2)))
  IN  Add(Add(baseRotation, Mul(fraction, arcSpan)), Num(90))

\* Faulty variant: no guard for max === min.
getNeedleAngle_NoGuard(value, min, max, arcSpan) ==
  LET clamped      == MathMax(min, MathMin(max, value))
      fraction     == Div(Sub(clamped, min), Sub(max, min))
      baseRotation == Add(Num(90), Div(Sub(Num(360), arcSpan), Num(2)))
  IN  Add(Add(baseRotation, Mul(fraction, arcSpan)), Num(90))

getNeedleAngle(value, min, max, arcSpan) ==
  LET clamped      == MathMax(min, MathMin(max, value))
      fraction     == IF StrictEq(max, min) THEN Num(0)
                      ELSE Div(Sub(clamped, min), Sub(max, min))
      baseRotation == Add(Num(90), Div(Sub(Num(360), arcSpan), Num(2)))
  IN  Add(Add(baseRotation, Mul(fraction, arcSpan)), Num(90))

(***************************************************************************)
(* getSegmentArcs: segments.map(...) with the running consumedLength.      *)
(***************************************************************************)
\* Faulty variant: consumedLength is never advanced.
RECURSIVE MapSegments_NoAdvance(_, _, _, _)
MapSegments_NoAdvance(segments, circumference, totalArcLength, consumedLength) ==
  IF segments = <<>> THEN <<>>
  ELSE LET segmentLength == Mul(totalArcLength, Head(segments))
       IN  <<[dashArray  |-> DashArrayString(segmentLength, circumference),
              dashOffset |-> Neg(consumedLength)]>>
             \o MapSegments_NoAdvance(Tail(segments), circumference, totalArcLength,
                                      consumedLength)

\* Faulty variant: the offset is the consumed length without the minus sign.
RECURSIVE MapSegments_PositiveOffset(_, _, _, _)
MapSegments_PositiveOffset(segments, circumference, totalArcLength, consumedLength) ==
  IF segments = <<>> THEN <<>>
  ELSE LET segmentLength == Mul(totalArcLength, Head(segments))
       IN  <<[dashArray  |-> DashArrayString(segmentLength, circumference),
              dashOffset |-> consumedLength]>>
             \o MapSegments_PositiveOffset(Tail(segments), circumference,
                                           totalArcLength,
                                           Add(consumedLength, segmentLength))

\* Faulty variant: a segment is cut off at the end of the arc.
RECURSIVE MapSegments_Clamped(_, _, _, _)
MapSegments_Clamped(segments, circumference, totalArcLength, consumedLength) ==
  IF segments = <<>> THEN <<>>
  ELSE LET segmentLength == MathMin(Mul(totalArcLength, Head(segments)),
                                    Sub(totalArcLength, consumedLength))
       IN  <<[dashArray  |-> DashArrayString(segmentLength, circumference),
              dashOffset |-> Neg(consumedLength)]>>
             \o MapSegments_Clamped(Tail(segments), circumference, totalArcLength,
                                    Add(consumedLength, segmentLength))

RECURSIVE MapSegments(_, _, _, _)
MapSegments(segments, circumference, totalArcLength, consumedLength) ==
  IF segments = <<>> THEN <<>>
  ELSE LET fraction      == Head(segments)
           segmentLength == Mul(totalArcLength, fraction)
           dashArray     == DashArrayString(segmentLength, circumference)
           dashOffset    == Neg(consumedLength)
       IN  <<[dashArray |-> dashArray, dashOffset |-> dashOffset]>>
             \o MapSegments(Tail(segments), circumference, totalArcLength,
                            Add(consumedLength, segmentLength))

\* Faulty variant: the segments share out the whole circle, not the arc.
getSegmentArcs_WholeCircle(radius, arcSpan, segments) ==
  LET circumference == Mul(Mul(Num(2), PI), radius)
  IN  MapSegments(segments, circumference, circumference, Num(0))

getSegmentArcs(radius, arcSpan, segments) ==
  LET circumference  == Mul(Mul(Num(2), PI), radius)
      totalArcLength == Mul(Div(arcSpan, Num(360)), circumference)
  IN  MapSegments(segments, circumference, totalArcLength, Num(0))

(***************************************************************************)
(* Inputs.                                                                 *)
(***************************************************************************)
\* arcSpan?: 180 | 240 | 270
ArcSpan == {180, 240, 270}

\* The engine takes any number of degrees: the enum, a quarter and a full circle.
ArcSpans == ArcSpan \cup {90, 360}

\* 40 is the radius of the engine's tests.
Radii == (1 .. MaxRadius) \cup {40}

\* Fill fractions from -1 to 2.
Fractions == {Rat(k, FracDen) : k \in (-FracDen) .. (2 * FracDen)}

\* Segment fractions from -1/SegDen to 1 + 1/SegDen.
SegFractions == {Rat(k, SegDen) : k \in (-1) .. (SegDen + 1)}

SegmentLists == UNION {[1 .. n -> SegFractions] : n \in 0 .. MaxSegs}

\* Values and range ends: -25, 0, 25, ..., 25 * MaxValueK.
Values == {25 * k : k \in (-1) .. MaxValueK}

(***************************************************************************)
(* State.                                                                  *)
(*                                                                         *)
(* One call on the engine: call is the operation and its arguments, pc     *)
(* tells whether it has run, result is what it returned.                   *)
(*                                                                         *)
(* A run of calls on the engine: hist is the calls that have returned,     *)
(* frame the invocation of getSegmentArcs that is running, consumedLength  *)
(* its accumulator.                                                        *)
(*                                                                         *)
(* The components: multi is a GaugeMulti (props, hook state, what it told  *)
(* its parent), app the parent's state in the synced composition, legend   *)
(* a GaugeLegend, chart a GaugeChart (props and what it rendered).         *)
(*                                                                         *)
(* Each specification runs one of these and keeps the others absent.       *)
(***************************************************************************)
VARIABLES call, pc, result, hist, frame, consumedLength, multi, app, legend, chart

vars == <<call, pc, result, hist, frame, consumedLength, multi, app, legend, chart>>

engineVars == <<call, pc, result>>

runVars == <<hist, frame, consumedLength>>

componentVars == <<multi, app, legend, chart>>

Absent == [present |-> FALSE]

NoEngineCall == call = [op |-> "none"] /\ pc = "off" /\ result = <<>>

NoRun == hist = <<>> /\ frame = Absent /\ consumedLength = Num(0)

NoComponents == multi = Absent /\ app = Absent /\ legend = Absent /\ chart = Absent

ArcDashCalls ==
  [op : {"getArcDash"}, radius : Radii, arcSpan : ArcSpans, fraction : Fractions]

NeedleAngleCalls ==
  [op : {"getNeedleAngle"}, value : Values, min : Values, max : Values,
   arcSpan : ArcSpans]

SegmentArcsCalls ==
  [op : {"getSegmentArcs"}, radius : Radii, arcSpan : ArcSpans,
   segments : SegmentLists]

Init ==
  /\ call \in ArcDashCalls \cup NeedleAngleCalls \cup SegmentArcsCalls
  /\ pc = "ready"
  /\ result = <<>>
  /\ NoRun
  /\ NoComponents

CallGetArcDash ==
  /\ pc = "ready"
  /\ call.op = "getArcDash"
  /\ result' = getArcDash(Num(call.radius), Num(call.arcSpan), call.fraction)
  /\ pc' = "done"
  /\ UNCHANGED call
  /\ UNCHANGED <<runVars, componentVars>>

CallGetNeedleAngle ==
  /\ pc = "ready"
  /\ call.op = "getNeedleAngle"
  /\ result' = getNeedleAngle(Num(call.value), Num(call.min), Num(call.max),
                              Num(call.arcSpan))
  /\ pc' = "done"
  /\ UNCHANGED call
  /\ UNCHANGED <<runVars, componentVars>>

CallGetSegmentArcs ==
  /\ pc = "ready"
  /\ call.op = "getSegmentArcs"
  /\ result' = getSegmentArcs(Num(call.radius), Num(call.arcSpan), call.segments)
  /\ pc' = "done"
  /\ UNCHANGED call
  /\ UNCHANGED <<runVars, componentVars>>

Next ==
  \/ CallGetArcDash
  \/ CallGetNeedleAngle
  \/ CallGetSegmentArcs

Spec == Init /\ [][Next]_vars

(***************************************************************************)
(* Reading a call's outcome.                                               *)
(***************************************************************************)
Done(op) == pc = "done" /\ call.op = op

\* The number a text denotes.
ParseNumber(t) ==
  IF t.digits = "NaN" THEN NaN
  ELSE IF t.digits = "Infinity" THEN Infinity(IF t.sign = "-" THEN -1 ELSE 1)
  ELSE IF t.sign = "-" THEN <<-t.digits[1], t.digits[2]>>
  ELSE t.digits

\* The two numbers of a stroke-dasharray "visible gap".
VisibleLength(d) == ParseNumber(d.dashArray[1])

GapLength(d) == ParseNumber(d.dashArray[2])

\* A segment's stroke stretch [SegStart, SegEnd) along the circle, measured
\* from the arc start: a negative dash offset pushes the dash forward.
SegStart(d) == Neg(d.dashOffset)

SegEnd(d) == Add(Neg(d.dashOffset), VisibleLength(d))

\* Two stretches share a piece of positive length.
Overlap(d, e) ==
  Lt(MathMax(SegStart(d), SegStart(e)), MathMin(SegEnd(d), SegEnd(e)))

\* (span/360) * 2 * pi * r, in units of pi.
ArcLengthOf(r, span) == Rat(span * 2 * r, 360)

CircumferenceOf(r) == Num(2 * r)

\* 90 + (360 - span)/2
RotationOf(span) == Add(Num(90), Rat(360 - span, 2))

RECURSIVE SumOf(_)
SumOf(fs) == IF fs = <<>> THEN Num(0) ELSE Add(Head(fs), SumOf(Tail(fs)))

\* arcLength * f1 + ... + arcLength * fk for the first k fractions, left to right.
RECURSIVE ConsumedBefore(_, _, _)
ConsumedBefore(fs, k, arcLength) ==
  IF k = 0 THEN Num(0)
  ELSE Add(ConsumedBefore(fs, k - 1, arcLength), Mul(arcLength, fs[k]))

NonNegative(fs) == \A i \in 1 .. Len(fs) : Le(Num(0), fs[i])

(***************************************************************************)
(* C1: with every fraction >= 0 the segments of getSegmentArcs tile the    *)
(* arc in input order: the first starts at the arc start, each next one    *)
(* starts where the one before ends, and no two segments cover a common    *)
(* stretch of the stroke.                                                  *)
(***************************************************************************)
C1_SegmentsTile ==
  (Done("getSegmentArcs") /\ NonNegative(call.segments)) =>
    /\ Len(result) > 0 => SegStart(result[1]) = Num(0)
    /\ \A i \in 1 .. Len(result) - 1 : SegStart(result[i + 1]) = SegEnd(result[i])
    /\ \A i, j \in 1 .. Len(result) : i # j => ~Overlap(result[i], result[j])

C1_Witness ==
  /\ Done("getSegmentArcs")
  /\ Len(call.segments) = 3
  /\ \A i \in 1 .. 3 : Lt(Num(0), call.segments[i])
  /\ call.segments[1] # call.segments[2]
  /\ Lt(SegStart(result[2]), SegStart(result[3]))

(***************************************************************************)
(* C2: getSegmentArcs gives segment 0 the dashOffset 0, segment k the      *)
(* dashOffset minus the sum of arcLength*fi over i < k, and every segment  *)
(* k a dashArray with visible length arcLength*fk and gap length the full  *)
(* circumference 2*pi*r, where arcLength = (span/360)*2*pi*r.              *)
(***************************************************************************)
C2_OffsetsAreCumulativeSums ==
  Done("getSegmentArcs") =>
    LET arcLength == ArcLengthOf(call.radius, call.arcSpan)
    IN  /\ Len(result) > 0 => result[1].dashOffset = Num(0)
        /\ \A k \in 1 .. Len(call.segments) :
             /\ k \in DOMAIN result
             /\ result[k].dashOffset = Neg(ConsumedBefore(call.segments, k - 1, arcLength))
             /\ VisibleLength(result[k]) = Mul(arcLength, call.segments[k])
             /\ GapLength(result[k]) = CircumferenceOf(call.radius)

C2_Witness ==
  /\ Done("getSegmentArcs")
  /\ Len(call.segments) = 3
  /\ call.arcSpan = 270
  /\ call.radius = 40
  /\ Lt(result[3].dashOffset, result[2].dashOffset)
  /\ Lt(result[2].dashOffset, Num(0))

(***************************************************************************)
(* C3: for fractions in [0,1] getArcDash's dashOffset is                   *)
(* arcLength * (1 - fraction): arcLength at fraction 0, 0 at fraction 1,   *)
(* and strictly smaller for a larger fraction.                             *)
(***************************************************************************)
C3_DashOffsetDecreases ==
  (Done("getArcDash") /\ Le(Num(0), call.fraction) /\ Le(call.fraction, Num(1))) =>
    LET arcLength == ArcLengthOf(call.radius, call.arcSpan)
    IN  /\ result.dashOffset = Mul(arcLength, Sub(Num(1), call.fraction))
        /\ call.fraction = Num(0) => result.dashOffset = arcLength
        /\ call.fraction = Num(1) => result.dashOffset = Num(0)
        /\ \A f2 \in Fractions :
             (Lt(call.fraction, f2) /\ Le(f2, Num(1))) =>
               Lt(getArcDash(Num(call.radius), Num(call.arcSpan), f2).dashOffset,
                  result.dashOffset)

C3_Witness ==
  /\ Done("getArcDash")
  /\ Lt(Num(0), call.fraction)
  /\ Lt(call.fraction, Num(1))
  /\ Lt(Num(0), result.dashOffset)
  /\ Lt(result.dashOffset, ArcLengthOf(call.radius, call.arcSpan))

(***************************************************************************)
(* C4: a fraction above 1 gives getArcDash's result for fraction 1 and a   *)
(* fraction below 0 its result for fraction 0, field by field; no fraction *)
(* is rejected (every call returns finite numbers).                        *)
(***************************************************************************)
SameArcDash(a, b) ==
  /\ a.circumference = b.circumference
  /\ a.dashArray = b.dashArray
  /\ a.dashOffset = b.dashOffset
  /\ a.rotationDeg = b.rotationDeg

C4_FractionClamped ==
  Done("getArcDash") =>
    /\ IsFinite(result.circumference) /\ IsFinite(result.dashOffset)
    /\ IsFinite(result.rotationDeg)
    /\ IsFinite(VisibleLength(result)) /\ IsFinite(GapLength(result))
    /\ Lt(Num(1), call.fraction) =>
         SameArcDash(result, getArcDash(Num(call.radius), Num(call.arcSpan), Num(1)))
    /\ Lt(call.fraction, Num(0)) =>
         SameArcDash(result, getArcDash(Num(call.radius), Num(call.arcSpan), Num(0)))

C4_Witness ==
  /\ Done("getArcDash")
  /\ Lt(Num(1), call.fraction)
  /\ result.dashOffset = Num(0)

(***************************************************************************)
(* C5: getArcDash's rotationDeg is 90 + (360 - arcSpan)/2 whatever the     *)
(* radius and the fraction: 180 for span 180, 150 for span 240 and 135 for *)
(* span 270.                                                               *)
(***************************************************************************)
C5_RotationFromSpanOnly ==
  Done("getArcDash") =>
    /\ result.rotationDeg = RotationOf(call.arcSpan)
    /\ call.arcSpan = 180 => result.rotationDeg = Num(180)
    /\ call.arcSpan = 240 => result.rotationDeg = Num(150)
    /\ call.arcSpan = 270 => result.rotationDeg = Num(135)
    /\ \A r2 \in Radii, f2 \in Fractions :
         getArcDash(Num(r2), Num(call.arcSpan), f2).rotationDeg = result.rotationDeg

C5_Witness ==
  /\ Done("getArcDash")
  /\ call.arcSpan = 270
  /\ call.radius = 40
  /\ call.fraction = Rat(1, 2)
  /\ result.rotationDeg = Num(135)

(***************************************************************************)
(* C6: for min < max and min <= value <= max, getNeedleAngle is            *)
(* 90 + (360 - arcSpan)/2 + ((value - min)/(max - min))*arcSpan + 90, not  *)
(* brought back into [0,360): over [0,100] with span 180, value 0 gives    *)
(* 270, value 50 gives 360 and value 100 gives 450; with span 270, value   *)
(* 50 gives 360.                                                           *)
(***************************************************************************)
C6_NeedleAngleFormula ==
  (/\ Done("getNeedleAngle")
   /\ call.min < call.max
   /\ call.min <= call.value
   /\ call.value <= call.max) =>
    /\ result =
         Add(Add(RotationOf(call.arcSpan),
                 Mul(Rat(call.value - call.min, call.max - call.min),
                     Num(call.arcSpan))),
             Num(90))
    /\ (call.min = 0 /\ call.max = 100 /\ call.arcSpan = 180) =>
         /\ call.value = 0 => result = Num(270)
         /\ call.value = 50 => result = Num(360)
         /\ call.value = 100 => result = Num(450)
    /\ (call.min = 0 /\ call.max = 100 /\ call.arcSpan = 270 /\ call.value = 50) =>
         result = Num(360)

C6_Witness ==
  /\ Done("getNeedleAngle")
  /\ call.min = 0
  /\ call.max = 100
  /\ call.value = 100
  /\ call.arcSpan = 180
  /\ result = Num(450)

(***************************************************************************)
(* C7: with min < max, getNeedleAngle of a value below min is its result   *)
(* for min, and of a value above max its result for max.                   *)
(***************************************************************************)
C7_ValueClamped ==
  (Done("getNeedleAngle") /\ call.min < call.max) =>
    /\ call.value < call.min =>
         result = getNeedleAngle(Num(call.min), Num(call.min), Num(call.max),
                                 Num(call.arcSpan))
    /\ call.value > call.max =>
         result = getNeedleAngle(Num(call.max), Num(call.min), Num(call.max),
                                 Num(call.arcSpan))

C7_Witness ==
  /\ Done("getNeedleAngle")
  /\ call.min = 0
  /\ call.max = 100
  /\ call.value = 125
  /\ call.arcSpan = 180
  /\ result = Num(450)

(***************************************************************************)
(* C8: with min = max, getNeedleAngle is a number for every value (no NaN, *)
(* nothing infinite): the arc start 90 + (360 - arcSpan)/2 + 90, which is  *)
(* 270 for span 180.                                                       *)
(***************************************************************************)
C8_DegenerateRange ==
  (Done("getNeedleAngle") /\ call.min = call.max) =>
    /\ IsFinite(result)
    /\ result = Add(RotationOf(call.arcSpan), Num(90))
    /\ call.arcSpan = 180 => result = Num(270)

C8_Witness ==
  /\ Done("getNeedleAngle")
  /\ call.min = 50
  /\ call.max = 50
  /\ call.value = 50
  /\ call.arcSpan = 180
  /\ result = Num(270)

(***************************************************************************)
(* C9: getSegmentArcs(r, span, [1]) returns one descriptor, whose          *)
(* dashArray is that of getArcDash(r, span, 1) and whose dashOffset is 0,  *)
(* as is that of getArcDash(r, span, 1).                                   *)
(***************************************************************************)
C9_SingleSegmentIsFullArc ==
  (Done("getSegmentArcs") /\ call.segments = <<Num(1)>>) =>
    LET full == getArcDash(Num(call.radius), Num(call.arcSpan), Num(1))
    IN  /\ Len(result) = 1
        /\ result[1].dashArray = full.dashArray
        /\ result[1].dashOffset = Num(0)
        /\ result[1].dashOffset = full.dashOffset

C9_Witness ==
  /\ Done("getSegmentArcs")
  /\ call.segments = <<Num(1)>>
  /\ call.arcSpan = 180
  /\ call.radius = 40
  /\ VisibleLength(result[1]) = Num(40)

(***************************************************************************)
(* C10 as stated: getSegmentArcs uses the fractions as given; non-negative *)
(* fractions that sum to less than 1 leave a gap of arcLength*(1 - sum)    *)
(* after the last segment, and fractions that sum to more than 1 make some *)
(* segment cover a stretch that another segment also covers.               *)
(***************************************************************************)
\* The visible lengths are the fractions of the arc exactly as given.
FractionsAsGiven ==
  /\ Len(result) = Len(call.segments)
  /\ \A k \in 1 .. Len(result) :
       VisibleLength(result[k]) =
         Mul(ArcLengthOf(call.radius, call.arcSpan), call.segments[k])

\* What is left of the arc after the last segment.
GapAtFarEnd ==
  Sub(ArcLengthOf(call.radius, call.arcSpan), SegEnd(result[Len(result)]))

UnderfillLeavesGap ==
  Lt(SumOf(call.segments), Num(1)) =>
    /\ Lt(Num(0), GapAtFarEnd)
    /\ GapAtFarEnd = Mul(ArcLengthOf(call.radius, call.arcSpan),
                         Sub(Num(1), SumOf(call.segments)))

C10_OverfillOverlaps ==
  (Done("getSegmentArcs") /\ NonNegative(call.segments) /\ call.segments # <<>>) =>
    /\ FractionsAsGiven
    /\ UnderfillLeavesGap
    /\ Lt(Num(1), SumOf(call.segments)) =>
         \E i, j \in 1 .. Len(result) : i # j /\ Overlap(result[i], result[j])

(***************************************************************************)
(* C10 amended: getSegmentArcs uses the fractions as given; non-negative   *)
(* fractions that sum to less than 1 leave a gap of arcLength*(1 - sum)    *)
(* after the last segment, and fractions that sum to more than 1 put the   *)
(* end of the last segment arcLength*(sum - 1) beyond the end of the arc,  *)
(* while no segment covers a stretch that another segment covers.          *)
(***************************************************************************)
C10_OverfillOverruns ==
  (Done("getSegmentArcs") /\ NonNegative(call.segments) /\ call.segments # <<>>) =>
    /\ FractionsAsGiven
    /\ UnderfillLeavesGap
    /\ Lt(Num(1), SumOf(call.segments)) =>
         /\ Neg(GapAtFarEnd) = Mul(ArcLengthOf(call.radius, call.arcSpan),
                                   Sub(SumOf(call.segments), Num(1)))
         /\ Lt(GapAtFarEnd, Num(0))
         /\ \A i, j \in 1 .. Len(result) : i # j => ~Overlap(result[i], result[j])

C10_Witness ==
  /\ Done("getSegmentArcs")
  /\ call.segments = <<Num(1), Rat(1, 2)>>
  /\ call.arcSpan = 180
  /\ SegStart(result[2]) = ArcLengthOf(call.radius, call.arcSpan)
  /\ ~Overlap(result[1], result[2])

(***************************************************************************)
(* degToRad and polarToCartesian.  Math.cos and Math.sin are taken at      *)
(* whole quarter turns, where they are 0, 1 or -1.                         *)
(***************************************************************************)
degToRad(deg) == Div(Mul(deg, PI), Num(180))

\* The number of quarter turns in rad, a multiple of pi/2.
QuarterTurns(rad) == ((2 * rad[1]) \div rad[2]) % 4

MathCos(rad) ==
  IF QuarterTurns(rad) = 0 THEN Num(1)
  ELSE IF QuarterTurns(rad) = 2 THEN Num(-1)
  ELSE Num(0)

MathSin(rad) ==
  IF QuarterTurns(rad) = 1 THEN Num(1)
  ELSE IF QuarterTurns(rad) = 3 THEN Num(-1)
  ELSE Num(0)

polarToCartesian(cx, cy, radius, angleDeg) ==
  LET rad == degToRad(Sub(angleDeg, Num(90)))
  IN  [x |-> Add(cx, Mul(radius, MathCos(rad))),
       y |-> Add(cy, Mul(radius, MathSin(rad)))]

(***************************************************************************)
(* A run of calls on the engine.  getSegmentArcs runs step by step: entry  *)
(* (let consumedLength = 0), one step per element of segments.map, and     *)
(* return; the other four functions have no local that outlives a step.    *)
(* Calls do not interleave: the engine is synchronous.                     *)
(***************************************************************************)
MaxCalls == 3

RunCalls ==
  [op : {"degToRad"}, deg : {90, 180}]
    \cup [op : {"polarToCartesian"}, cx : {50}, cy : {50}, radius : {40},
          angleDeg : {90, 270}]
    \cup [op : {"getArcDash"}, radius : {40}, arcSpan : {180},
          fraction : {Rat(1, 2), Rat(3, 2)}]
    \cup [op : {"getNeedleAngle"}, value : {50}, min : {0, 50}, max : {50},
          arcSpan : {180}]
    \cup [op : {"getSegmentArcs"}, radius : {40}, arcSpan : {180},
          segments : {<<Rat(1, 2), Rat(1, 2)>>, <<Num(1)>>}]

InitRun ==
  /\ NoEngineCall
  /\ NoRun
  /\ NoComponents

CanCall == frame = Absent /\ Len(hist) < MaxCalls

Returned(c, r) ==
  /\ hist' = Append(hist, [call |-> c, result |-> r])
  /\ UNCHANGED <<frame, consumedLength, engineVars, componentVars>>

RunDegToRad ==
  \E c \in RunCalls :
    /\ CanCall
    /\ c.op = "degToRad"
    /\ Returned(c, degToRad(Num(c.deg)))

RunPolarToCartesian ==
  \E c \in RunCalls :
    /\ CanCall
    /\ c.op = "polarToCartesian"
    /\ Returned(c, polarToCartesian(Num(c.cx), Num(c.cy), Num(c.radius),
                                    Num(c.angleDeg)))

RunGetArcDash ==
  \E c \in RunCalls :
    /\ CanCall
    /\ c.op = "getArcDash"
    /\ Returned(c, getArcDash(Num(c.radius), Num(c.arcSpan), c.fraction))

RunGetNeedleAngle ==
  \E c \in RunCalls :
    /\ CanCall
    /\ c.op = "getNeedleAngle"
    /\ Returned(c, getNeedleAngle(Num(c.value), Num(c.min), Num(c.max),
                                  Num(c.arcSpan)))

\* Faulty variant: the accumulator is not set to 0 on entry, as if it were
\* declared outside the function.
EnterGetSegmentArcs_NoReset ==
  \E c \in RunCalls :
    /\ CanCall
    /\ c.op = "getSegmentArcs"
    /\ frame' = [present |-> TRUE, call |-> c,
                 circumference |-> Mul(Mul(Num(2), PI), Num(c.radius)),
                 totalArcLength |->
                   Mul(Div(Num(c.arcSpan), Num(360)),
                       Mul(Mul(Num(2), PI), Num(c.radius))),
                 index |-> 1, out |-> <<>>]
    /\ UNCHANGED <<consumedLength, hist, engineVars, componentVars>>

EnterGetSegmentArcs ==
  \E c \in RunCalls :
    /\ CanCall
    /\ c.op = "getSegmentArcs"
    /\ frame' = [present |-> TRUE, call |-> c,
                 circumference |-> Mul(Mul(Num(2), PI), Num(c.radius)),
                 totalArcLength |->
                   Mul(Div(Num(c.arcSpan), Num(360)),
                       Mul(Mul(Num(2), PI), Num(c.radius))),
                 index |-> 1, out |-> <<>>]
    /\ consumedLength' = Num(0)
    /\ UNCHANGED <<hist, engineVars, componentVars>>

MapCallback ==
  /\ frame.present
  /\ frame.index <= Len(frame.call.segments)
  /\ LET fraction      == frame.call.segments[frame.index]
         segmentLength == Mul(frame.totalArcLength, fraction)
         dashArray     == DashArrayString(segmentLength, frame.circumference)
         dashOffset    == Neg(consumedLength)
     IN  /\ consumedLength' = Add(consumedLength, segmentLength)
         /\ frame' = [frame EXCEPT
                        !.out = Append(@, [dashArray |-> dashArray,
                                           dashOffset |-> dashOffset]),
                        !.index = @ + 1]
  /\ UNCHANGED <<hist, engineVars, componentVars>>

ReturnGetSegmentArcs ==
  /\ frame.present
  /\ frame.index > Len(frame.call.segments)
  /\ hist' = Append(hist, [call |-> frame.call, result |-> frame.out])
  /\ frame' = Absent
  /\ UNCHANGED <<consumedLength, engineVars, componentVars>>

NextRun ==
  \/ RunDegToRad
  \/ RunPolarToCartesian
  \/ RunGetArcDash
  \/ RunGetNeedleAngle
  \/ EnterGetSegmentArcs
  \/ MapCallback
  \/ ReturnGetSegmentArcs

SpecRun == InitRun /\ [][NextRun]_vars

(***************************************************************************)
(* C11: in any run of calls, two calls of the same engine function with    *)
(* the same arguments returned the same value whatever was called in       *)
(* between; getSegmentArcs starts its consumed length at 0 on every call   *)
(* and returns what its arguments alone determine.                         *)
(***************************************************************************)
SameCall(c, d) == c.op = d.op /\ c = d

C11_CallsArePure ==
  /\ \A i, j \in DOMAIN hist :
       SameCall(hist[i].call, hist[j].call) => hist[i].result = hist[j].result
  /\ \A i \in DOMAIN hist :
       hist[i].call.op = "getSegmentArcs" =>
         hist[i].result = getSegmentArcs(Num(hist[i].call.radius),
                                         Num(hist[i].call.arcSpan),
                                         hist[i].call.segments)
  /\ (frame.present /\ frame.index = 1) => consumedLength = Num(0)

C11_Witness ==
  /\ Len(hist) = 3
  /\ hist[1].call.op = "getSegmentArcs"
  /\ hist[1].call.segments = <<Rat(1, 2), Rat(1, 2)>>
  /\ hist[2].call.op = "getSegmentArcs"
  /\ hist[2].call.segments = <<Num(1)>>
  /\ hist[3].call = hist[1].call
  /\ hist[3].result = hist[1].result
  /\ Lt(hist[3].result[2].dashOffset, Num(0))

(***************************************************************************)
(* C13: for radius > 0 and 0 < arcSpan <= 360, the stroke that getArcDash's *)
(* dash pattern leaves visible on the circle is the stretch from the arc   *)
(* start to arcLength * clamp(fraction): nothing at fraction 0, the whole  *)
(* track at fraction 1, never anything beyond the track.                   *)
(***************************************************************************)
Clamp01(f) == MathMax(Num(0), MathMin(Num(1), f))

\* A stroke with dash pattern "visible gap" shifted back by dashOffset shows,
\* on a path as long as the circumference, its first dash from DashFrom to
\* DashTo and its second dash from NextDashFrom.
DashFrom(d) == MathMax(Num(0), Neg(d.dashOffset))

DashTo(d) ==
  MathMax(DashFrom(d),
          MathMin(d.circumference, Sub(VisibleLength(d), d.dashOffset)))

NextDashFrom(d) == Sub(Add(VisibleLength(d), GapLength(d)), d.dashOffset)

C13_VisibleStretchIsFill ==
  (Done("getArcDash") /\ call.radius > 0 /\ call.arcSpan > 0 /\ call.arcSpan <= 360) =>
    LET arcLength == ArcLengthOf(call.radius, call.arcSpan)
        filled    == Mul(arcLength, Clamp01(call.fraction))
    IN  /\ Le(Num(0), result.dashOffset)
        /\ DashFrom(result) = Num(0)
        /\ DashTo(result) = filled
        /\ Le(result.circumference, NextDashFrom(result))
        /\ Le(DashTo(result), arcLength)
        /\ Le(call.fraction, Num(0)) => DashTo(result) = DashFrom(result)
        /\ Le(Num(1), call.fraction) => DashTo(result) = arcLength

C13_Witness ==
  /\ Done("getArcDash")
  /\ call.arcSpan = 270
  /\ call.fraction = Rat(1, 2)
  /\ DashTo(result) = Rat(call.radius * 3, 4)

(***************************************************************************)
(* GaugeMulti.                                                             *)
(*                                                                         *)
(* null and undefined are the empty sequence and a value v that is there   *)
(* is <<v>>.  Indices are JavaScript's, from 0.  A datum is [name, amount] *)
(* with category = "name" and value = "amount"; names are strings, of      *)
(* which String() is the string itself.  event is the last thing that      *)
(* happened to the component and emitted the arguments of the calls of     *)
(* onValueChange it made.                                                  *)
(***************************************************************************)
Null == <<>>

Undefined == <<>>

Some(v) == <<v>>

SIZE == 200

DefaultStrokeWidth == 12

MaxData == 2

\* The datum of each category name and its amount, as Number(d[value]) reads
\* it: a number, 0, or NaN for a value that is missing or not numeric.
Datums == {[name |-> "Sales", amount |-> Num(450)],
           [name |-> "Returns", amount |-> Num(120)],
           [name |-> "Pending", amount |-> Num(0)],
           [name |-> "Sales", amount |-> NaN]}

DataLists == UNION {[1 .. n -> Datums] : n \in 0 .. MaxData}

\* activeName: not given, the name of a datum, or a name no datum has.
ActiveNames == {Undefined} \cup {Some(d.name) : d \in Datums} \cup {Some("Other")}

\* Number(x) || 0
NumberOrZero(x) == IF IsNaN(x) \/ x = Num(0) THEN Num(0) ELSE x

\* data.reduce((sum, d) => sum + (Number(d[value]) || 0), 0)
RECURSIVE ReduceTotal(_, _)
ReduceTotal(data, sum) ==
  IF data = <<>> THEN sum
  ELSE ReduceTotal(Tail(data), Add(sum, NumberOrZero(Head(data).amount)))

MultiTotal(m) == ReduceTotal(m.data, Num(0))

\* Faulty variant: the division is made also when the total is 0.
MultiFractions_NoZeroGuard(m) ==
  [i \in 1 .. Len(m.data) |-> Div(NumberOrZero(m.data[i].amount), MultiTotal(m))]

\* Faulty variant: the fractions are taken in reverse order of the data.
MultiFractions_Reversed(m) ==
  [i \in 1 .. Len(m.data) |->
     IF StrictEq(MultiTotal(m), Num(0)) THEN Num(0)
     ELSE Div(NumberOrZero(m.data[Len(m.data) + 1 - i].amount), MultiTotal(m))]

MultiFractions(m) ==
  [i \in 1 .. Len(m.data) |->
     IF StrictEq(MultiTotal(m), Num(0)) THEN Num(0)
     ELSE Div(NumberOrZero(m.data[i].amount), MultiTotal(m))]

zeroFractions(m) == [i \in 1 .. Len(m.data) |-> Num(0)]

MultiRadius(m) == Div(Sub(Num(SIZE), Mul(Num(m.strokeWidth), Num(2))), Num(2))

MultiTrack(m) == getArcDash(MultiRadius(m), Num(m.arcSpan), Num(1))

MultiSegments(m) ==
  getSegmentArcs(MultiRadius(m), Num(m.arcSpan),
                 IF m.mounted THEN MultiFractions(m) ELSE zeroFractions(m))

\* data.findIndex((d) => String(d[category]) === activeName)
RECURSIVE FindIndexFrom(_, _, _)
FindIndexFrom(data, name, i) ==
  IF i >= Len(data) THEN -1
  ELSE IF data[i + 1].name = name THEN i
  ELSE FindIndexFrom(data, name, i + 1)

\* Faulty variant: the internal click state comes before activeName.
resolvedActiveIndex_ClickFirst(m) ==
  IF m.clickedIndex # Null THEN m.clickedIndex
  ELSE IF m.activeName # Undefined
       THEN LET idx == FindIndexFrom(m.data, m.activeName[1], 0)
            IN  IF idx >= 0 THEN Some(idx) ELSE Null
  ELSE Null

resolvedActiveIndex(m) ==
  IF m.activeName # Undefined
  THEN LET idx == FindIndexFrom(m.data, m.activeName[1], 0)
       IN  IF idx >= 0 THEN Some(idx) ELSE Null
  ELSE m.clickedIndex

\* isActive of segment i: it is not dimmed.
SegmentIsActive(m, i) ==
  resolvedActiveIndex(m) = Null \/ resolvedActiveIndex(m) = Some(i)

tooltipIndex(m) ==
  IF m.hoverIndex # Null THEN m.hoverIndex ELSE resolvedActiveIndex(m)

\* {showTooltip && tooltipIndex !== null && tooltipPos && ( <div ...> )}
TooltipRendered(m) ==
  /\ m.showTooltip
  /\ tooltipIndex(m) # Null
  /\ m.tooltipPos # Null

\* Faulty variant: a click always selects, also the selected segment.
handleSegmentClick_NoToggle(m, index) ==
  [m EXCEPT !.clickedIndex = IF m.activeName = Undefined THEN Some(index) ELSE @,
            !.emitted = <<Some(m.data[index + 1])>>,
            !.event = [kind |-> "click", index |-> index]]

\* The component after a click on segment index; emitted are the arguments
\* onValueChange was called with.
handleSegmentClick(m, index) ==
  LET isDeselect == resolvedActiveIndex(m) = Some(index)
  IN  [m EXCEPT
         !.clickedIndex = IF m.activeName = Undefined
                          THEN (IF isDeselect THEN Null ELSE Some(index))
                          ELSE @,
         !.emitted = <<IF isDeselect THEN Null ELSE Some(m.data[index + 1])>>,
         !.event = [kind |-> "click", index |-> index]]

\* Faulty variant: hovering a segment also selects it.
handleMouseEnter_Selects(m, index) ==
  IF ~m.showTooltip THEN m
  ELSE [m EXCEPT !.tooltipPos = Some("xy"), !.hoverIndex = Some(index),
                 !.clickedIndex = Some(index)]

handleMouseEnter(m, index) ==
  IF ~m.showTooltip THEN m
  ELSE [m EXCEPT !.tooltipPos = Some("xy"), !.hoverIndex = Some(index)]

handleMouseMove(m) ==
  IF ~m.showTooltip THEN m
  ELSE [m EXCEPT !.tooltipPos = Some("xy")]

handleMouseLeave(m) == [m EXCEPT !.tooltipPos = Null, !.hoverIndex = Null]

\* The first render and its layout effect: mounted is !showAnimation and a
\* frame is requested when showAnimation is set.
GaugeMultiMounted(data, activeName, showAnimation, showTooltip) ==
  [present |-> TRUE, alive |-> TRUE,
   data |-> data, activeName |-> activeName,
   showAnimation |-> showAnimation, showTooltip |-> showTooltip,
   arcSpan |-> 180, strokeWidth |-> DefaultStrokeWidth,
   mounted |-> ~showAnimation, frameRequested |-> showAnimation,
   marker |-> Undefined,
   clickedIndex |-> Null, hoverIndex |-> Null, tooltipPos |-> Null,
   pointer |-> Null, emitted |-> <<>>, event |-> [kind |-> "mount", index |-> -1]]

Indices(m) == 0 .. (Len(m.data) - 1)

InitMulti ==
  /\ NoEngineCall
  /\ NoRun
  /\ app = Absent
  /\ legend = Absent
  /\ chart = Absent
  /\ \E data \in DataLists, activeName \in ActiveNames,
        showAnimation \in BOOLEAN, showTooltip \in BOOLEAN :
       multi = GaugeMultiMounted(data, activeName, showAnimation, showTooltip)

OnlyMulti == UNCHANGED <<engineVars, runVars, app, legend, chart>>

\* requestAnimationFrame(() => setMounted(true))
AnimationFrame ==
  /\ multi.frameRequested
  /\ multi' = [multi EXCEPT !.mounted = TRUE, !.frameRequested = FALSE,
                            !.emitted = <<>>,
                            !.event = [kind |-> "frame", index |-> -1]]
  /\ OnlyMulti

\* Faulty variant: the cleanup leaves the requested frame to fire.
Unmount_NoCancel ==
  /\ multi.alive
  /\ multi' = [multi EXCEPT !.alive = FALSE,
                            !.emitted = <<>>,
                            !.event = [kind |-> "unmount", index |-> -1]]
  /\ OnlyMulti

\* The effect's cleanup: cancelAnimationFrame(id)
Unmount ==
  /\ multi.alive
  /\ multi' = [multi EXCEPT !.alive = FALSE, !.frameRequested = FALSE,
                            !.emitted = <<>>,
                            !.event = [kind |-> "unmount", index |-> -1]]
  /\ OnlyMulti

SegmentClick ==
  \E index \in Indices(multi) :
    /\ multi.alive
    /\ multi' = handleSegmentClick(multi, index)
    /\ OnlyMulti

MouseEnter ==
  \E index \in Indices(multi) :
    /\ multi.alive
    /\ multi.pointer = Null
    /\ multi' = [handleMouseEnter(multi, index) EXCEPT
                   !.pointer = Some(index), !.emitted = <<>>,
                   !.event = [kind |-> "mouseenter", index |-> index]]
    /\ OnlyMulti

MouseMove ==
  /\ multi.alive
  /\ multi.pointer # Null
  /\ multi' = [handleMouseMove(multi) EXCEPT
                 !.emitted = <<>>,
                 !.event = [kind |-> "mousemove", index |-> multi.pointer[1]]]
  /\ OnlyMulti

MouseLeave ==
  /\ multi.alive
  /\ multi.pointer # Null
  /\ multi' = [handleMouseLeave(multi) EXCEPT
                 !.pointer = Null, !.emitted = <<>>,
                 !.event = [kind |-> "mouseleave", index |-> multi.pointer[1]]]
  /\ OnlyMulti

\* The parent renders the gauge again with another activeName.
ParentSetsActiveName ==
  \E activeName \in ActiveNames :
    /\ multi.alive
    /\ activeName # multi.activeName
    /\ multi' = [multi EXCEPT !.activeName = activeName, !.emitted = <<>>,
                              !.event = [kind |-> "props", index |-> -1]]
    /\ OnlyMulti

NextMulti ==
  \/ AnimationFrame
  \/ Unmount
  \/ SegmentClick
  \/ MouseEnter
  \/ MouseMove
  \/ MouseLeave
  \/ ParentSetsActiveName

SpecMulti == InitMulti /\ [][NextMulti]_vars

(***************************************************************************)
(* Claims about GaugeMulti                                                 *)
(***************************************************************************)
\* amount of datum k over the sum of all amounts, computed on the integers.
RECURSIVE AmountSum(_)
AmountSum(data) ==
  IF data = <<>> THEN 0 ELSE Head(data).amount[1] + AmountSum(Tail(data))

\* An amount that is not a number has numerator 0 and counts as 0; with
\* nothing to share out every share is 0.
ShareOf(data, k) ==
  IF AmountSum(data) = 0 THEN Num(0) ELSE Rat(data[k].amount[1], AmountSum(data))

\* The arc of the gauge in units of pi: radius (200 - 2 * strokeWidth) / 2.
MultiArcLength(m) == ArcLengthOf((SIZE - 2 * m.strokeWidth) \div 2, m.arcSpan)

(***************************************************************************)
(* C12: getSegmentArcs returns one descriptor per input fraction, in input *)
(* order, so GaugeMulti renders exactly one segment per data item in data  *)
(* order: before the mount animation flips segment k has no visible        *)
(* length, after it segment k shows datum k's share of the arc, and its    *)
(* stretch starts after the shares of the data before it.                  *)
(***************************************************************************)
C12_OneSegmentPerDatum ==
  multi.present =>
    LET segs == MultiSegments(multi)
        data == multi.data
        arc  == MultiArcLength(multi)
        shares == [k \in 1 .. Len(data) |-> ShareOf(data, k)]
    IN  /\ Len(segs) = Len(data)
        /\ \A k \in 1 .. Len(data) :
             IF multi.mounted
             THEN /\ VisibleLength(segs[k]) = Mul(arc, shares[k])
                  /\ SegStart(segs[k]) = ConsumedBefore(shares, k - 1, arc)
             ELSE /\ VisibleLength(segs[k]) = Num(0)
                  /\ SegStart(segs[k]) = Num(0)

\* Two different data, drawn after the animation flipped: the second
\* segment shows Returns' 120/600 of the arc, after Sales' 450/600.
C12_Witness ==
  /\ multi.present
  /\ multi.showAnimation
  /\ multi.mounted
  /\ Len(multi.data) = 2
  /\ multi.data[1].name = "Sales"
  /\ multi.data[2].name = "Returns"
  /\ Len(MultiSegments(multi)) = 2
  /\ VisibleLength(MultiSegments(multi)[2]) = Mul(MultiArcLength(multi), Rat(120, 570))
  /\ SegStart(MultiSegments(multi)[2]) = Mul(MultiArcLength(multi), Rat(450, 570))

\* The segments the gauge draws at full opacity while it dims the others.
Highlighted(m) == {i \in Indices(m) : resolvedActiveIndex(m) = Some(i)}

\* The step is a click on segment i of a gauge that had no activeName.
UncontrolledClick(i) ==
  /\ multi.present
  /\ multi.activeName = Undefined
  /\ multi'.event = [kind |-> "click", index |-> i]

(***************************************************************************)
(* C14: in GaugeMulti without activeName, a click on a segment that is not *)
(* the selected one calls onValueChange exactly once with that segment's   *)
(* datum and selects it; a click on the selected segment calls             *)
(* onValueChange exactly once with null and clears the selection; at most  *)
(* one segment is selected at any time.                                    *)
(***************************************************************************)
C14_UncontrolledToggle ==
  [][\A i \in Indices(multi) :
       UncontrolledClick(i) =>
         /\ Len(multi'.emitted) = 1
         /\ Cardinality(Highlighted(multi)) <= 1
         /\ Cardinality(Highlighted(multi')) <= 1
         /\ IF i \in Highlighted(multi)
            THEN /\ multi'.emitted[1] = Null
                 /\ multi'.activeName = Undefined => Highlighted(multi') = {}
            ELSE /\ multi'.emitted[1] = Some(multi.data[i + 1])
                 /\ multi'.activeName = Undefined => Highlighted(multi') = {i}]_vars

\* A second click on the selected segment has just cleared the selection.
C14_Witness ==
  /\ multi.present
  /\ multi.activeName = Undefined
  /\ multi.event.kind = "click"
  /\ multi.emitted = <<Null>>
  /\ multi.clickedIndex = Null
  /\ Len(multi.data) = 2

\* The positions (from 0) of the data named name.
PositionsOf(data, name) == {i \in 0 .. (Len(data) - 1) : data[i + 1].name = name}

\* The first of them, if there is one.
FirstNamed(data, name) ==
  {i \in PositionsOf(data, name) : \A j \in PositionsOf(data, name) : i <= j}

\* The step is a click on segment i of a gauge that had an activeName.
ControlledClick(i) ==
  /\ multi.present
  /\ multi.activeName # Undefined
  /\ multi'.event = [kind |-> "click", index |-> i]

(***************************************************************************)
(* C16: when activeName is given to GaugeMulti it comes before the         *)
(* internal click state: the highlighted segment is the first datum whose  *)
(* category equals activeName (none without a match) whatever was clicked  *)
(* before, and a click leaves the internal clicked index unchanged and     *)
(* only calls onValueChange, with null if the clicked segment is the one   *)
(* resolved from activeName and with the clicked datum otherwise.          *)
(***************************************************************************)
C16_ActiveNameTakesPrecedence ==
  [][/\ (multi.present /\ multi.activeName # Undefined) =>
          /\ Highlighted(multi) = FirstNamed(multi.data, multi.activeName[1])
          /\ \A i \in Indices(multi) :
               SegmentIsActive(multi, i) <=>
                 \/ FirstNamed(multi.data, multi.activeName[1]) = {}
                 \/ i \in FirstNamed(multi.data, multi.activeName[1])
     /\ (multi'.present /\ multi'.activeName # Undefined) =>
          Highlighted(multi') = FirstNamed(multi'.data, multi'.activeName[1])
     /\ \A i \in Indices(multi) :
          ControlledClick(i) =>
            /\ multi'.clickedIndex = multi.clickedIndex
            /\ multi'.emitted =
                 <<IF i \in FirstNamed(multi.data, multi.activeName[1])
                   THEN Null ELSE Some(multi.data[i + 1])>>]_vars

\* A click on the segment named by activeName while another segment is the
\* internally clicked one: the call carries null, the clicked index stays.
C16_Witness ==
  /\ multi.present
  /\ multi.activeName = Some("Returns")
  /\ Len(multi.data) = 2
  /\ multi.data[1].name = "Sales"
  /\ multi.data[2].name = "Returns"
  /\ multi.clickedIndex = Some(0)
  /\ multi.event = [kind |-> "click", index |-> 1]
  /\ multi.emitted = <<Null>>
  /\ Highlighted(multi) = {1}

(***************************************************************************)
(* GaugeLegend.                                                            *)
(* The component is a record of its props (items, activeName, whether      *)
(* onItemClick is given); it has no state of its own.  event is the last   *)
(* thing that happened to it and emitted the arguments of the calls of     *)
(* onItemClick it made.  An item is its name and value; its colour only    *)
(* picks the class of the marker square.                                   *)
(***************************************************************************)
MaxItems == 2

LegendItems == {[name |-> d.name, value |-> d.amount] : d \in Datums}

ItemLists == UNION {[1 .. n -> LegendItems] : n \in 0 .. MaxItems}

\* Faulty variant: an activeName that names no item dims nothing.
LegendItemIsActive_DimOnlyOnMatch(l, item) ==
  \/ l.activeName = Undefined
  \/ l.activeName = Some(item.name)
  \/ \A k \in 1 .. Len(l.items) : l.activeName # Some(l.items[k].name)

\* const isActive = activeName === undefined || activeName === item.name
LegendItemIsActive(l, item) ==
  \/ l.activeName = Undefined
  \/ l.activeName = Some(item.name)

\* !isActive && "opacity-30", item by item (positions from 0)
LegendDimmed(l) ==
  {j \in 0 .. (Len(l.items) - 1) : ~LegendItemIsActive(l, l.items[j + 1])}

\* onClick={() => onItemClick?.(item.name)}
LegendOnClick(l, j) ==
  [l EXCEPT !.emitted = IF l.hasOnItemClick THEN <<l.items[j + 1].name>> ELSE <<>>,
            !.event = [kind |-> "click", index |-> j]]

GaugeLegendMounted(items, activeName, hasOnItemClick) ==
  [present |-> TRUE, items |-> items, activeName |-> activeName,
   hasOnItemClick |-> hasOnItemClick,
   emitted |-> <<>>, event |-> [kind |-> "mount", index |-> -1]]

InitLegend ==
  /\ NoEngineCall
  /\ NoRun
  /\ multi = Absent
  /\ app = Absent
  /\ chart = Absent
  /\ \E items \in ItemLists, activeName \in ActiveNames, hasOnItemClick \in BOOLEAN :
       legend = GaugeLegendMounted(items, activeName, hasOnItemClick)

OnlyLegend == UNCHANGED <<engineVars, runVars, multi, app, chart>>

ItemClick ==
  \E j \in 0 .. (Len(legend.items) - 1) :
    /\ legend' = LegendOnClick(legend, j)
    /\ OnlyLegend

\* The caller renders the legend again with another activeName.
CallerSetsActiveName ==
  \E activeName \in ActiveNames :
    /\ activeName # legend.activeName
    /\ legend' = [legend EXCEPT !.activeName = activeName, !.emitted = <<>>,
                                !.event = [kind |-> "props", index |-> -1]]
    /\ OnlyLegend

NextLegend ==
  \/ ItemClick
  \/ CallerSetsActiveName

SpecLegend == InitLegend /\ [][NextLegend]_vars

(***************************************************************************)
(* C17: GaugeLegend dims exactly the items whose name differs from         *)
(* activeName when activeName is defined and dims none when it is          *)
(* undefined; a click on an item calls onItemClick with that item's name,  *)
(* and since the legend keeps no selection of its own the click changes    *)
(* the dimming only if the caller changes activeName.                      *)
(***************************************************************************)
C17_LegendDimsByActiveName ==
  [][/\ legend.present =>
          LegendDimmed(legend) =
            {j \in 0 .. (Len(legend.items) - 1) :
               /\ legend.activeName # Undefined
               /\ legend.items[j + 1].name # legend.activeName[1]}
     /\ legend'.present =>
          LegendDimmed(legend') =
            {j \in 0 .. (Len(legend'.items) - 1) :
               /\ legend'.activeName # Undefined
               /\ legend'.items[j + 1].name # legend'.activeName[1]}
     /\ \A j \in 0 .. (Len(legend.items) - 1) :
          (legend.present /\ legend'.event = [kind |-> "click", index |-> j]) =>
            /\ legend.hasOnItemClick => legend'.emitted = <<legend.items[j + 1].name>>
            /\ legend'.activeName = legend.activeName =>
                 LegendDimmed(legend') = LegendDimmed(legend)]_vars

\* A click on a dimmed item of a legend whose activeName names another item:
\* the call carries the clicked name, and the clicked item is still dimmed.
C17_Witness ==
  /\ legend.present
  /\ legend.hasOnItemClick
  /\ Len(legend.items) = 2
  /\ legend.items[1].name = "Sales"
  /\ legend.items[2].name = "Returns"
  /\ legend.activeName = Some("Sales")
  /\ legend.event = [kind |-> "click", index |-> 1]
  /\ legend.emitted = <<"Returns">>
  /\ LegendDimmed(legend) = {1}

(***************************************************************************)
(* The gauge with a synced legend.                                         *)
(* The parent keeps `active` (app.active) and renders GaugeMulti and       *)
(* GaugeLegend with activeName={active}; each handler's setActive renders  *)
(* both again with the new value.                                          *)
(***************************************************************************)
\* Lists of data with different names.
DistinctDataLists ==
  {data \in DataLists :
     \A i, j \in 1 .. Len(data) : data[i].name = data[j].name => i = j}

\* const items = data.map((d, i) => ({ name: d.name, value: d.amount, ... }))
ItemsOf(data) == [k \in 1 .. Len(data) |-> [name |-> data[k].name, value |-> data[k].amount]]

\* onValueChange={(d) => setActive(d ? d.name : undefined)}
OnValueChange(d) == IF d = Null THEN Undefined ELSE Some(d[1].name)

\* onItemClick={(name) => setActive(active === name ? undefined : name)}
OnItemClick(active, name) == IF active = Some(name) THEN Undefined ELSE Some(name)

\* Both components rendered again with activeName={active}.
Rendered(component, active) == [component EXCEPT !.activeName = active]

InitSync ==
  /\ NoEngineCall
  /\ NoRun
  /\ chart = Absent
  /\ app = [present |-> TRUE, active |-> Undefined]
  /\ \E data \in DistinctDataLists, showAnimation \in BOOLEAN, showTooltip \in BOOLEAN :
       /\ multi = GaugeMultiMounted(data, Undefined, showAnimation, showTooltip)
       /\ legend = GaugeLegendMounted(ItemsOf(data), Undefined, TRUE)

SyncSegmentClick ==
  \E index \in Indices(multi) :
    LET clicked == handleSegmentClick(multi, index)
        active  == OnValueChange(clicked.emitted[1])
    IN  /\ multi.alive
        /\ app' = [app EXCEPT !.active = active]
        /\ multi' = Rendered(clicked, active)
        /\ legend' = Rendered([legend EXCEPT !.emitted = <<>>,
                                             !.event = [kind |-> "props", index |-> -1]],
                              active)
        /\ UNCHANGED <<engineVars, runVars, chart>>

SyncLegendClick ==
  \E j \in 0 .. (Len(legend.items) - 1) :
    LET clicked == LegendOnClick(legend, j)
        active  == OnItemClick(app.active, clicked.emitted[1])
    IN  /\ app' = [app EXCEPT !.active = active]
        /\ legend' = Rendered(clicked, active)
        /\ multi' = Rendered([multi EXCEPT !.emitted = <<>>,
                                           !.event = [kind |-> "props", index |-> -1]],
                             active)
        /\ UNCHANGED <<engineVars, runVars, chart>>

NextSync ==
  \/ SyncSegmentClick
  \/ SyncLegendClick
  \/ AnimationFrame
  \/ MouseEnter
  \/ MouseMove
  \/ MouseLeave

SpecSync == InitSync /\ [][NextSync]_vars

\* The names of the segments the gauge highlights, and of the items the
\* legend highlights (an item is highlighted when activeName names it).
GaugeHighlightedNames == {multi.data[i + 1].name : i \in Highlighted(multi)}

LegendHighlightedNames ==
  {legend.items[j + 1].name :
     j \in {k \in 0 .. (Len(legend.items) - 1) : legend.activeName = Some(legend.items[k + 1].name)}}

(***************************************************************************)
(* C15: in the documented composition of GaugeMulti and GaugeLegend with   *)
(* one `active` kept by the parent, after any interleaving of segment      *)
(* clicks and legend-item clicks the segment highlighted by the gauge and  *)
(* the item highlighted by the legend carry the same name, or neither      *)
(* component highlights anything.                                          *)
(***************************************************************************)
C15_HighlightsAgree ==
  app.present => GaugeHighlightedNames = LegendHighlightedNames

(***************************************************************************)
(* GaugeChart.                                                             *)
(* The component is a record of its props and of what its last render      *)
(* drew (rendered, Null before the first render).  The prop                *)
(* showThresholdArc, boolean | "bands" | "ticks", is one of the texts      *)
(* "false", "true", "bands", "ticks"; thresholds is Undefined or a list of *)
(* [value, color].                                                         *)
(***************************************************************************)
DefaultChartStrokeWidth == 10

MaxThresholds == 3

ChartValues == {Num(-10), Num(60), Num(75), Num(90)}

\* <<min, max>>: the defaults, a narrower range, an empty and an inverted one.
ChartRanges == {<<Num(0), Num(100)>>, <<Num(20), Num(70)>>,
                <<Num(50), Num(50)>>, <<Num(100), Num(0)>>}

GaugeThreshold == {[value |-> Num(0), color |-> "emerald"],
                   [value |-> Num(60), color |-> "amber"],
                   [value |-> Num(80), color |-> "pink"],
                   [value |-> Num(60), color |-> "rose"]}

ThresholdLists ==
  {Undefined} \cup {Some(ts) : ts \in UNION {[1 .. n -> GaugeThreshold] : n \in 0 .. MaxThresholds}}

ShowThresholdArc == {"false", "true", "bands", "ticks"}

\* [...thresholds].sort((a, b) => a.value - b.value): the sort is stable.
RECURSIVE InsertByValue(_, _)
InsertByValue(sorted, t) ==
  IF sorted = <<>> THEN <<t>>
  ELSE IF Le(Head(sorted).value, t.value)
       THEN <<Head(sorted)>> \o InsertByValue(Tail(sorted), t)
       ELSE <<t>> \o sorted

RECURSIVE SortByValue(_)
SortByValue(ts) ==
  IF ts = <<>> THEN <<>>
  ELSE InsertByValue(SortByValue(SubSeq(ts, 1, Len(ts) - 1)), ts[Len(ts)])

\* for (const t of sorted) { if (value >= t.value) resolved = t.color; else break; }
RECURSIVE ResolveLoop(_, _, _)
ResolveLoop(sorted, value, resolved) ==
  IF sorted = <<>> THEN resolved
  ELSE IF Le(Head(sorted).value, value)
       THEN ResolveLoop(Tail(sorted), value, Head(sorted).color)
       ELSE resolved

\* Faulty variant: the thresholds are walked in the order given.
resolveColor_Unsorted(value, color, thresholds) ==
  IF thresholds = Undefined \/ Len(thresholds[1]) = 0 THEN color
  ELSE ResolveLoop(thresholds[1], value, thresholds[1][1].color)

resolveColor(value, color, thresholds) ==
  IF thresholds = Undefined \/ Len(thresholds[1]) = 0 THEN color
  ELSE LET sorted == SortByValue(thresholds[1])
       IN  ResolveLoop(sorted, value, sorted[1].color)

ChartRadius(c) == Div(Sub(Num(SIZE), Mul(Num(c.strokeWidth), Num(2))), Num(2))

ChartRange(c) == Sub(c.max, c.min)

ChartFraction(c) ==
  IF Le(ChartRange(c), Num(0)) THEN Num(0)
  ELSE Div(Sub(MathMax(c.min, MathMin(c.max, c.value)), c.min), ChartRange(c))

thresholdMode(c) ==
  IF c.showThresholdArc = "true" THEN "ticks"
  ELSE IF c.showThresholdArc = "bands" THEN "bands"
  ELSE IF c.showThresholdArc = "ticks" THEN "ticks"
  ELSE "false"

\* sorted.map((t, i) => ...): the share of the arc of each zone
BandFractions(c, sorted) ==
  [i \in 1 .. Len(sorted) |->
     LET start == Div(Sub(MathMax(c.min, sorted[i].value), c.min), ChartRange(c))
         end   == IF i < Len(sorted)
                  THEN Div(Sub(MathMax(c.min, sorted[i + 1].value), c.min), ChartRange(c))
                  ELSE Num(1)
     IN  [fraction |-> MathMax(Num(0), Sub(end, start)), color |-> sorted[i].color]]

thresholdBands(c) ==
  IF \/ thresholdMode(c) # "bands"
     \/ c.thresholds = Undefined
     \/ Len(c.thresholds[1]) = 0
     \/ Le(ChartRange(c), Num(0))
  THEN Null
  ELSE LET sorted == SortByValue(c.thresholds[1])
           fracs  == BandFractions(c, sorted)
           arcs   == getSegmentArcs(ChartRadius(c), Num(c.arcSpan),
                                    [i \in 1 .. Len(fracs) |-> fracs[i].fraction])
       IN  Some([i \in 1 .. Len(fracs) |->
                   [dashArray |-> arcs[i].dashArray, dashOffset |-> arcs[i].dashOffset,
                    color |-> fracs[i].color]])

\* Faulty variant: a tick for the first threshold as well.
thresholdTicks_NoSlice(c) ==
  IF \/ thresholdMode(c) # "ticks"
     \/ c.thresholds = Undefined
     \/ Len(c.thresholds[1]) < 2
     \/ Le(ChartRange(c), Num(0))
  THEN Null
  ELSE LET sorted == SortByValue(c.thresholds[1])
       IN  Some([i \in 1 .. Len(sorted) |->
                   [angle |-> getNeedleAngle(sorted[i].value, c.min, c.max, Num(c.arcSpan)),
                    color |-> sorted[i].color]])

thresholdTicks(c) ==
  IF \/ thresholdMode(c) # "ticks"
     \/ c.thresholds = Undefined
     \/ Len(c.thresholds[1]) < 2
     \/ Le(ChartRange(c), Num(0))
  THEN Null
  ELSE LET sorted == Tail(SortByValue(c.thresholds[1]))
       IN  Some([i \in 1 .. Len(sorted) |->
                   [angle |-> getNeedleAngle(sorted[i].value, c.min, c.max, Num(c.arcSpan)),
                    color |-> sorted[i].color]])

\* Faulty variant: the needle's range starts at 0 whatever min is.
needleAngle_FromZero(c) ==
  IF c.showNeedle THEN getNeedleAngle(c.value, Num(0), c.max, Num(c.arcSpan)) ELSE Num(0)

needleAngle(c) ==
  IF c.showNeedle THEN getNeedleAngle(c.value, c.min, c.max, Num(c.arcSpan)) ELSE Num(0)

\* What one render draws: the background (plain track, or track and bands),
\* the tick lines, the fill and the needle; transition is whether the fill's
\* dash offset and the needle's rotation carry a CSS transition.  The
\* component keeps no state and schedules nothing: its first render draws
\* from the props as every later one does.
GaugeChartRender(c) ==
  [activeColor    |-> resolveColor(c.value, c.color, c.thresholds),
   track          |-> getArcDash(ChartRadius(c), Num(c.arcSpan), Num(1)),
   fill           |-> getArcDash(ChartRadius(c), Num(c.arcSpan), ChartFraction(c)),
   thresholdBands |-> thresholdBands(c),
   thresholdTicks |-> thresholdTicks(c),
   needleAngle    |-> needleAngle(c),
   transition     |-> c.showAnimation]

GaugeChartProps ==
  {[present |-> TRUE, value |-> value, min |-> range[1], max |-> range[2],
    color |-> "blue", thresholds |-> thresholds,
    showThresholdArc |-> showThresholdArc, arcSpan |-> arcSpan,
    showNeedle |-> showNeedle, showAnimation |-> showAnimation,
    strokeWidth |-> DefaultChartStrokeWidth,
    rendered |-> Null] :
     value \in ChartValues, range \in ChartRanges, thresholds \in ThresholdLists,
     showThresholdArc \in ShowThresholdArc, arcSpan \in ArcSpan,
     showNeedle \in BOOLEAN, showAnimation \in BOOLEAN}

InitChart ==
  /\ NoEngineCall
  /\ NoRun
  /\ multi = Absent
  /\ app = Absent
  /\ legend = Absent
  /\ chart \in GaugeChartProps

RenderGaugeChart ==
  /\ chart.rendered = Null
  /\ chart' = [chart EXCEPT !.rendered = Some(GaugeChartRender(chart))]
  /\ UNCHANGED <<engineVars, runVars, multi, app, legend>>

NextChart == RenderGaugeChart

SpecChart == InitChart /\ [][NextChart]_vars

(***************************************************************************)
(* Claims about GaugeChart                                                 *)
(***************************************************************************)
Drawn == chart.present /\ chart.rendered # Null

\* The thresholds given (none when the prop is absent).
GivenThresholds == IF chart.thresholds = Undefined THEN <<>> ELSE chart.thresholds[1]

\* The positions of the thresholds the value has reached.
Reached(ts, value) == {i \in 1 .. Len(ts) : Le(ts[i].value, value)}

\* Of the positions in S, those with the greatest, or the least, threshold value.
Greatest(ts, S) == {i \in S : \A j \in S : Le(ts[j].value, ts[i].value)}

Least(ts, S) == {i \in S : \A j \in S : Le(ts[i].value, ts[j].value)}

KthValue(ts, k) ==
  CHOOSE v \in {ts[i].value : i \in 1 .. Len(ts)} :
    /\ Cardinality({i \in 1 .. Len(ts) : Lt(ts[i].value, v)}) < k
    /\ k <= Cardinality({i \in 1 .. Len(ts) : Le(ts[i].value, v)})

C20_TrueMeansBands ==
  (Drawn /\ chart.showThresholdArc = "true") =>
    LET asBands == GaugeChartRender([chart EXCEPT !.showThresholdArc = "bands"])
    IN  /\ chart.rendered[1].thresholdBands = asBands.thresholdBands
        /\ chart.rendered[1].thresholdTicks = asBands.thresholdTicks

(***************************************************************************)
(* C21: with showAnimation (the default) GaugeChart animates the arc and   *)
(* the needle on mount: its first render draws the fill at fraction 0 and  *)
(* the needle at the arc start, and a later render draws them at the       *)
(* value's fraction.                                                       *)
(***************************************************************************)
C21_FirstRenderIsEmpty ==
  (Drawn /\ chart.showAnimation) =>
    /\ chart.rendered[1].fill.dashOffset =
         ArcLengthOf((SIZE - 2 * chart.strokeWidth) \div 2, chart.arcSpan)
    /\ chart.showNeedle =>
         chart.rendered[1].needleAngle = Add(RotationOf(chart.arcSpan), Num(90))

\* Every segment the gauge draws has the visible length of its datum's share
\* of the arc, or none of them has any visible length.
DrawsRealFractions(m) ==
  \A k \in 1 .. Len(m.data) :
    VisibleLength(MultiSegments(m)[k]) = Mul(MultiArcLength(m), ShareOf(m.data, k))

DrawsZeroFractions(m) ==
  \A k \in 1 .. Len(m.data) : VisibleLength(MultiSegments(m)[k]) = Num(0)

(***************************************************************************)
(* C22: in GaugeMulti with showAnimation the first render passes all-zero  *)
(* fractions to getSegmentArcs; when the scheduled animation frame fires   *)
(* mounted becomes true, every later render uses the real fractions and    *)
(* mounted never becomes false again; when the component unmounts before   *)
(* the frame fires the frame is cancelled and mounted is never set.        *)
(* Without showAnimation the real fractions are used from the first        *)
(* render.                                                                 *)
(***************************************************************************)
C22_MountedFlipsOnce ==
  /\ [](multi.present =>
          IF multi.mounted THEN DrawsRealFractions(multi) ELSE DrawsZeroFractions(multi))
  /\ [][multi.present =>
          /\ multi.event.kind = "mount" =>
               /\ multi.mounted = ~multi.showAnimation
               /\ multi.frameRequested = multi.showAnimation
          /\ multi'.event.kind = "frame" => (multi.alive /\ multi'.mounted)
          /\ multi.mounted => multi'.mounted
          /\ (~multi.mounted /\ multi'.mounted) => multi'.event.kind = "frame"
          /\ multi'.event.kind = "unmount" =>
               (~multi'.frameRequested /\ multi'.mounted = multi.mounted)
          /\ ~multi.alive => multi'.mounted = multi.mounted]_vars

\* The gauge was taken away before its frame fired: no frame is left to
\* fire and mounted is still false.
C22_Witness ==
  /\ multi.present
  /\ multi.showAnimation
  /\ multi.event.kind = "unmount"
  /\ ~multi.alive
  /\ ~multi.mounted
  /\ ~multi.frameRequested
  /\ Len(multi.data) = 2

\* The arc of the chart in units of pi: radius (200 - 2 * strokeWidth) / 2.
ChartArcLength == ArcLengthOf((SIZE - 2 * chart.strokeWidth) \div 2, chart.arcSpan)

\* A drawn chart in bands mode with thresholds and max > min.
BandsMode ==
  /\ Drawn
  /\ chart.showThresholdArc = "bands"
  /\ GivenThresholds # <<>>
  /\ Lt(chart.min, chart.max)

\* (max(min, value) - min) / (max - min)
ZoneStart(v) == Div(Sub(MathMax(chart.min, v), chart.min), Sub(chart.max, chart.min))

(***************************************************************************)
(* C23: in GaugeChart bands mode (thresholds non-empty, max > min) each    *)
(* entry defines a zone starting at its value: after sorting by value the  *)
(* band of each threshold starts at fraction (max(min, value) - min) /     *)
(* (max - min) of the arc and ends where the band of the next threshold    *)
(* starts, the last one at the arc end.                                    *)
(***************************************************************************)
C23_BandsStartAtTheirValue ==
  BandsMode =>
    LET ts    == GivenThresholds
        n     == Len(ts)
        bands == chart.rendered[1].thresholdBands
    IN  /\ bands # Null
        /\ Len(bands[1]) = n
        /\ \A k \in 1 .. n :
             /\ SegStart(bands[1][k]) = Mul(ChartArcLength, ZoneStart(KthValue(ts, k)))
             /\ SegEnd(bands[1][k]) =
                  IF k < n THEN SegStart(bands[1][k + 1]) ELSE ChartArcLength

(***************************************************************************)
(* C29: in GaugeChart bands mode with max > min, for any threshold list,   *)
(* also with threshold values below min or above max, every band fraction  *)
(* lies in [0, 1] and the band fractions sum to at most 1, so the coloured *)
(* bands never extend beyond the end of the background track.              *)
(***************************************************************************)
C29_BandsWithinTrack ==
  BandsMode =>
    LET bands == chart.rendered[1].thresholdBands[1]
        fracs == BandFractions(chart, SortByValue(GivenThresholds))
    IN  /\ \A k \in 1 .. Len(fracs) :
             /\ Le(Num(0), fracs[k].fraction)
             /\ Le(fracs[k].fraction, Num(1))
        /\ Le(SumOf([k \in 1 .. Len(fracs) |-> fracs[k].fraction]), Num(1))
        /\ \A k \in 1 .. Len(bands) :
             /\ Le(Num(0), SegStart(bands[k]))
             /\ Le(SegEnd(bands[k]), ChartArcLength)

\* The fill fraction: 0 when max - min <= 0, else the clamped value's place
\* in the range.
FillFraction ==
  IF Le(Sub(chart.max, chart.min), Num(0)) THEN Num(0)
  ELSE Div(Sub(MathMax(chart.min, MathMin(chart.max, chart.value)), chart.min),
           Sub(chart.max, chart.min))

(***************************************************************************)
(* C26: in GaugeChart the needle points at the end of the filled arc: for  *)
(* every value, min, max (also min = max and min > max) and arcSpan the    *)
(* needle angle is fill.rotationDeg + 90 + fraction * arcSpan, where       *)
(* fraction is the fill fraction handed to getArcDash; the filled arc ends *)
(* at that fraction of the arc.                                            *)
(***************************************************************************)
C26_NeedleAtEndOfFill ==
  (Drawn /\ chart.showNeedle) =>
    LET r == chart.rendered[1]
    IN  /\ r.needleAngle =
             Add(Add(r.fill.rotationDeg, Num(90)), Mul(FillFraction, Num(chart.arcSpan)))
        /\ Sub(VisibleLength(r.fill), r.fill.dashOffset) = Mul(ChartArcLength, FillFraction)

\* A value inside a range that does not start at 0: 60 on 20..70 is 4/5 of
\* the way, 180 + 90 + 144 degrees on the half circle.
C26_Witness ==
  /\ Drawn
  /\ chart.showNeedle
  /\ chart.value = Num(60)
  /\ chart.min = Num(20)
  /\ chart.max = Num(70)
  /\ chart.arcSpan = 180
  /\ chart.rendered[1].needleAngle = Num(414)
  /\ chart.rendered[1].fill.dashOffset = Mul(ChartArcLength, Rat(1, 5))

(***************************************************************************)
(* C24: with showTooltip GaugeMulti's tooltip shows for the hovered        *)
(* segment or for the active segment: for the hovered segment while one is *)
(* hovered, and when none is hovered but a segment is active (selected by  *)
(* click or by activeName) for that active segment.                        *)
(***************************************************************************)
C24_TooltipForHoverOrActive ==
  (multi.present /\ multi.alive /\ multi.showTooltip) =>
    /\ multi.hoverIndex # Null =>
         (TooltipRendered(multi) /\ tooltipIndex(multi) = multi.hoverIndex)
    /\ (multi.hoverIndex = Null /\ Highlighted(multi) # {}) =>
         (TooltipRendered(multi) /\ tooltipIndex(multi)[1] \in Highlighted(multi))

\* The step is a mouse enter, move or leave.
HoverStep == multi'.event.kind \in {"mouseenter", "mousemove", "mouseleave"}

(***************************************************************************)
(* C25: in GaugeMulti hover state is separate from highlight: mouse enter, *)
(* move and leave never change which segment is highlighted and never call *)
(* onValueChange, so after any hover events a click on a segment that is   *)
(* not selected still selects it and reports its datum, never null.        *)
(***************************************************************************)
C25_HoverLeavesHighlight ==
  [][multi.present =>
       /\ HoverStep =>
            /\ Highlighted(multi') = Highlighted(multi)
            /\ multi'.clickedIndex = multi.clickedIndex
            /\ multi'.emitted = <<>>
       /\ \A i \in Indices(multi) :
            (multi'.event = [kind |-> "click", index |-> i] /\ i \notin Highlighted(multi)) =>
              /\ multi'.emitted = <<Some(multi.data[i + 1])>>
              /\ multi.activeName = Undefined => Highlighted(multi') = {i}]_vars

\* The pointer is over the second segment, another one was selected, and a
\* click has just selected the hovered one and reported its datum.
C25_Witness ==
  /\ multi.present
  /\ multi.activeName = Undefined
  /\ Len(multi.data) = 2
  /\ multi.hoverIndex = Some(1)
  /\ multi.event = [kind |-> "click", index |-> 1]
  /\ multi.emitted = <<Some(multi.data[2])>>
  /\ Highlighted(multi) = {1}

\* Every amount is a number >= 0 (a missing or non-numeric one is NaN).
AmountsNonNegative(data) ==
  \A k \in 1 .. Len(data) : ~IsNaN(data[k].amount) /\ Le(Num(0), data[k].amount)

\* The amount as counted: 0 for one that is not a number.
CountedAmount(d) == IF IsNaN(d.amount) THEN Num(0) ELSE d.amount

CountedTotal(data) == SumOf([k \in 1 .. Len(data) |-> CountedAmount(data[k])])

(***************************************************************************)
(* C27: in GaugeMulti, when every datum value is a number >= 0 and the     *)
(* total is positive, the fractions handed to getSegmentArcs are           *)
(* value / total and sum to 1, so once mounted the segments cover the      *)
(* track exactly: the last one ends at arcLength.  When the total is 0     *)
(* every fraction is 0 and no segment has visible length.  Values that are *)
(* missing or not numeric count as 0.                                      *)
(***************************************************************************)
C27_FractionsShareTheTrack ==
  multi.present =>
    LET data  == multi.data
        n     == Len(data)
        fs    == MultiFractions(multi)
        total == CountedTotal(data)
        segs  == MultiSegments(multi)
    IN  /\ MultiTotal(multi) = total
        /\ Len(fs) = n
        /\ IF total = Num(0)
           THEN /\ \A k \in 1 .. n : fs[k] = Num(0)
                /\ \A k \in 1 .. n : VisibleLength(segs[k]) = Num(0)
           ELSE \A k \in 1 .. n : fs[k] = Div(CountedAmount(data[k]), total)
        /\ (AmountsNonNegative(data) /\ Lt(Num(0), total)) =>
             /\ SumOf(fs) = Num(1)
             /\ multi.mounted =>
                  /\ SegStart(segs[1]) = Num(0)
                  /\ \A k \in 1 .. (n - 1) : SegEnd(segs[k]) = SegStart(segs[k + 1])
                  /\ SegEnd(segs[n]) = MultiArcLength(multi)

\* The frame has fired on a gauge of a zero and a positive amount: the first
\* segment has no length and the second covers the whole track.
C27_Witness ==
  /\ multi.present
  /\ multi.showAnimation
  /\ multi.event.kind = "frame"
  /\ multi.mounted
  /\ Len(multi.data) = 2
  /\ multi.data[1].amount = Num(0)
  /\ multi.data[2].amount = Num(120)
  /\ VisibleLength(MultiSegments(multi)[1]) = Num(0)
  /\ SegEnd(MultiSegments(multi)[2]) = MultiArcLength(multi)

(***************************************************************************)
(* The gauge and the legend side by side, given the same list of names and *)
(* the same activeName by their parent.                                    *)
(***************************************************************************)
InitPair ==
  /\ NoEngineCall
  /\ NoRun
  /\ chart = Absent
  /\ app = Absent
  /\ \E data \in DistinctDataLists, activeName \in ActiveNames,
        showAnimation \in BOOLEAN, showTooltip \in BOOLEAN :
       /\ multi = GaugeMultiMounted(data, activeName, showAnimation, showTooltip)
       /\ legend = GaugeLegendMounted(ItemsOf(data), activeName, TRUE)

\* The parent renders both again with another activeName.
PairSetsActiveName ==
  \E activeName \in ActiveNames :
    /\ activeName # multi.activeName
    /\ multi' = Rendered([multi EXCEPT !.emitted = <<>>,
                                       !.event = [kind |-> "props", index |-> -1]],
                         activeName)
    /\ legend' = Rendered([legend EXCEPT !.emitted = <<>>,
                                         !.event = [kind |-> "props", index |-> -1]],
                          activeName)
    /\ UNCHANGED <<engineVars, runVars, app, chart>>

NextPair ==
  \/ PairSetsActiveName
  \/ AnimationFrame

SpecPair == InitPair /\ [][NextPair]_vars

\* The segments the gauge draws with opacity-30.
MultiDimmed(m) == {i \in Indices(m) : ~SegmentIsActive(m, i)}

(***************************************************************************)
(* C28: GaugeMulti and GaugeLegend agree on highlighting for the same      *)
(* input: for any activeName (undefined, a name in the list, a name not in *)
(* the list) and the same ordered list of distinct names, the set of       *)
(* segments GaugeMulti dims equals the set of items GaugeLegend dims.      *)
(***************************************************************************)
C28_SameDimming ==
  (multi.present /\ legend.present /\ multi.activeName = legend.activeName) =>
    MultiDimmed(multi) = LegendDimmed(legend)

(***************************************************************************)
(* GaugeMulti's marker.                                                    *)
(* The gauge with the props marker and arcSpan; the marker's angle depends *)
(* on the props alone.                                                     *)
(***************************************************************************)
MarkerValues == {Num(-50), Num(0), Num(300), Num(570), Num(900)}

Markers == {Undefined} \cup {Some([value |-> v]) : v \in MarkerValues}

\* Faulty variant: the marker's value is not clamped to the total.
markerAngle_Unclamped(m) ==
  IF m.marker # Undefined
  THEN Some(getNeedleAngle_NoClamp(m.marker[1].value, Num(0), MultiTotal(m), Num(m.arcSpan)))
  ELSE Null

\* marker !== undefined ? getNeedleAngle(marker.value, 0, total, arcSpan) : null
markerAngle(m) ==
  IF m.marker # Undefined
  THEN Some(getNeedleAngle(m.marker[1].value, Num(0), MultiTotal(m), Num(m.arcSpan)))
  ELSE Null

\* {markerAngle !== null && ( <line ... /> )}
MarkerRendered(m) == markerAngle(m) # Null

InitMarker ==
  /\ NoEngineCall
  /\ NoRun
  /\ app = Absent
  /\ legend = Absent
  /\ chart = Absent
  /\ \E data \in DataLists, marker \in Markers, arcSpan \in ArcSpan,
        showAnimation \in BOOLEAN :
       multi = [GaugeMultiMounted(data, Undefined, showAnimation, TRUE) EXCEPT
                  !.marker = marker, !.arcSpan = arcSpan]

\* The parent renders the gauge again with another marker.
ParentSetsMarker ==
  \E marker \in Markers :
    /\ multi.alive
    /\ marker # multi.marker
    /\ multi' = [multi EXCEPT !.marker = marker, !.emitted = <<>>,
                              !.event = [kind |-> "props", index |-> -1]]
    /\ OnlyMulti

NextMarker ==
  \/ ParentSetsMarker
  \/ AnimationFrame
  \/ Unmount

SpecMarker == InitMarker /\ [][NextMarker]_vars

\* 180 + (360 - arcSpan) / 2
ArcStartAngle(span) == Add(Num(180), Rat(360 - span, 2))

\* getNeedleAngle over the engine's inputs with min <= max: on the arc, and
\* not decreasing as the value grows.
NeedleAngleOnArc ==
  \A span \in ArcSpans, min \in Values, max \in Values, v \in Values :
    Le(Num(min), Num(max)) =>
      LET angle == getNeedleAngle(Num(v), Num(min), Num(max), Num(span))
      IN  /\ Le(ArcStartAngle(span), angle)
          /\ Le(angle, Add(ArcStartAngle(span), Num(span)))
          /\ \A w \in Values :
               Le(Num(v), Num(w)) =>
                 Le(angle, getNeedleAngle(Num(w), Num(min), Num(max), Num(span)))

(***************************************************************************)
(* C30: for every value, every min <= max and every arcSpan > 0            *)
(* getNeedleAngle lies in [start, start + arcSpan] with start = 180 +      *)
(* (360 - arcSpan)/2 and does not decrease as the value grows; hence       *)
(* GaugeMulti's marker angle getNeedleAngle(marker.value, 0, total,        *)
(* arcSpan) is on the arc, at the arc end when marker.value >= total > 0   *)
(* and at the arc start when marker.value <= 0 or total = 0; the marker    *)
(* line is rendered if and only if the marker prop is given.               *)
(***************************************************************************)
C30_MarkerOnArc ==
  /\ NeedleAngleOnArc
  /\ multi.present =>
       /\ MarkerRendered(multi) <=> multi.marker # Undefined
       /\ multi.marker # Undefined =>
            LET angle == markerAngle(multi)[1]
                value == multi.marker[1].value
                total == CountedTotal(multi.data)
                start == ArcStartAngle(multi.arcSpan)
            IN  /\ Le(start, angle)
                /\ Le(angle, Add(start, Num(multi.arcSpan)))
                /\ (Le(total, value) /\ Lt(Num(0), total)) =>
                     angle = Add(start, Num(multi.arcSpan))
                /\ (Le(value, Num(0)) \/ total = Num(0)) => angle = start

\* A marker beyond the total of Sales and Returns on the 240 degree arc: it
\* is drawn at the arc end, 240 + 240 degrees.
C30_Witness ==
  /\ multi.present
  /\ multi.arcSpan = 240
  /\ multi.marker = Some([value |-> Num(900)])
  /\ Len(multi.data) = 2
  /\ CountedTotal(multi.data) = Num(570)
  /\ MarkerRendered(multi)
  /\ markerAngle(multi) = Some(Num(480))
  /\ multi.event.kind = "props"

=============================================================================
